---- MODULE Spec2Model ----
(***************************************************************************)
(* A model of run_rate_app.py: the eMOLDINO project dashboard.             *)
(*                                                                         *)
(* Every visit is a session with its own st.session_state.  Each user      *)
(* interaction makes the framework run the script from the top for that    *)
(* session: the login gate, then (logged in) the cached reads of lines     *)
(* 300-306, then the header, then one of the project panel, the settings   *)
(* panel and the main tabs.  A run is modelled in two steps, the reads     *)
(* (RunFetch) and the rest of the script with the widget event that        *)
(* started the run (one action per event); other sessions' steps and the   *)
(* clock may come in between, as the sessions run in separate threads of   *)
(* one process that share st.cache_data and the document store.            *)
(*                                                                         *)
(* Python dicts are functions from the keys present to their values, None  *)
(* and NaN are the strings NoneVal and NaN, a missing timestamp (NaT) is   *)
(* the number NaT.                                                         *)
(***************************************************************************)
EXTENDS Integers, Sequences, FiniteSets, TLC

(***************************************************************************)
(* Bounds of the model.                                                    *)
(***************************************************************************)
MaxTime == 60          \* the clock stops here
TickStep == 30         \* the clock's step
MaxIds == 1            \* documents the store may still create
MaxRows == 2           \* projects of a snapshot that the tabs are drawn over

(***************************************************************************)
(* Program constants.                                                      *)
(***************************************************************************)
TTL_COLLECTION == 60   \* @st.cache_data(ttl=60), fetch_collection
TTL_COMMENTS == 30     \* @st.cache_data(ttl=30), fetch_comments

Sessions == {"s1", "s2"}

NoneVal == "<None>"
NaN == "<NaN>"
NaT == -1
EmptyDict == [k \in {} |-> k]

\* The Credential Store's users; Emails are what a visitor may type.
CredentialStore == {"kim@emoldino"}
Emails == CredentialStore \cup {"nobody@emoldino"}
Passwords == {"secret", "wrong"}

\* st.secrets["user_roles"] as deployed, and as an operator may redeploy it:
\* with the user as an editor, and without the user.
RoleTables == {[e \in {"kim@emoldino"} |-> "editor"], EmptyDict}

LookupKeys == {"regions", "pocs", "suppliers", "statuses"}
Collections == {"projects"} \cup LookupKeys


\* dict.get(key, default)
Get(d, key, default) == IF key \in DOMAIN d THEN d[key] ELSE default

\* Python truthiness of st.session_state.get(key) for the boolean flags
Truthy(d, key) == key \in DOMAIN d /\ d[key] = TRUE

\* d | u  (and dict.update): the right operand's keys win
Merge(d, u) == u @@ d

Range(seq) == {seq[i] : i \in DOMAIN seq}

Min(S) == CHOOSE x \in S : \A y \in S : x <= y

RECURSIVE SetToSeq(_)
SetToSeq(S) == IF S = {} THEN <<>>
               ELSE <<Min(S)>> \o SetToSeq(S \ {Min(S)})

(***************************************************************************)
(* What the forms can submit.                                              *)
(***************************************************************************)
q_keys == {"sensor", "terminal", "plastic", "iu_bracket", "heat_insulator"}

\* The script asks of a quantities value whether it is a dict, so the value
\* carries its Python type: a dict with its items, a str, or the float NaN
\* that a frame has where a document has no such field.
Dict(items) == [type |-> "dict", items |-> items]
Str(text) == [type |-> "str", text |-> text]
NaNCell == [type |-> "float", text |-> NaN]
isinstance_dict(q) == q.type = "dict"

ZeroQuantities == Dict([k \in q_keys |-> [qty |-> 0, bundled |-> FALSE]])

\* The free inputs of the project form a user fills in: PO reference, first
\* contact, project type, business area and the quantities block.
FormFills ==
    { [poRef |-> "", firstContact |-> 0, isNPI |-> "Yes",
       businessArea |-> "External", quantities |-> ZeroQuantities],
      [poRef |-> "PO-7", firstContact |-> 0, isNPI |-> "No",
       businessArea |-> "Internal",
       quantities |-> Dict([ZeroQuantities.items EXCEPT
                                   !["sensor"] = [qty |-> 5, bundled |-> TRUE]])] }

CommentTexts == {"", "ping"}
NewItems == {"", "APAC"}

\* Lexicographic order of the names that occur, for sorted().
NameOrder == <<"", "APAC", "Acme", "Active", "EMEA", "Kim">>
NameRank(n) == CHOOSE i \in DOMAIN NameOrder : NameOrder[i] = n

(***************************************************************************)
(* State.                                                                  *)
(***************************************************************************)
VARIABLES
    session_state,   \* st.session_state of each session: a dict
    user_roles,      \* st.secrets["user_roles"]
    db,              \* the store: collection name -> (document id -> document)
    db_comments,     \* project id -> its comments sub-collection, oldest first
    next_id,         \* ids the store has assigned so far
    now,             \* the store's server time, also the cache's clock
    cache_data,      \* st.cache_data: cache key -> [at, value]
    pc,              \* each session's place in its script run
    projects_df,     \* the run's projects_df: the listing, most recent first
    settings_data,   \* the run's settings_data
    login_form,      \* the identity typed in the login form, after a failed login
    run_end,         \* how the last script run of each session ended
    charts           \* what the tabs of a session show, once DrawTabs drew them

vars == <<session_state, user_roles, db, db_comments, next_id, now,
          cache_data, pc, projects_df, settings_data, login_form, run_end,
          charts>>

\* The sessions of the process.
Live == DOMAIN session_state

LoggedIn(s) == Truthy(session_state[s], "logged_in")

(***************************************************************************)
(* The document store.                                                     *)
(***************************************************************************)
\* doc.to_dict() | {'id': doc.id}
WithId(docs, i) == Merge(docs[i], [id |-> i])

\* db.collection(name).stream(): the documents, in document-id order
Stream(name) ==
    LET ids == SetToSeq(DOMAIN db[name])
    IN [n \in DOMAIN ids |-> WithId(db[name], ids[n])]

\* ...collection("comments").order_by("timestamp").stream(); the store
\* appends with its own non-decreasing time, so the sub-collection is in order
StreamComments(project_id) ==
    IF project_id \in DOMAIN db_comments THEN db_comments[project_id] ELSE <<>>

(***************************************************************************)
(* st.cache_data.  The cache key of a call is made of the function and of   *)
(* the arguments whose parameter name does not start with an underscore;   *)
(* both cached functions name their only parameter with one.               *)
(***************************************************************************)
CollectionKey(collection_name) == <<"fetch_collection">>
CommentsKey(project_id) == <<"fetch_comments">>

Cached(cache, key, ttl) == key \in DOMAIN cache /\ now - cache[key].at < ttl

\* A cached call: the value returned and the cache afterwards.
CachedCall(cache, key, ttl, computed) ==
    IF Cached(cache, key, ttl)
    THEN [value |-> cache[key].value, cache |-> cache]
    ELSE [value |-> computed,
          cache |-> Merge(cache, [k \in {key} |-> [at |-> now, value |-> computed]])]

fetch_collection(cache, collection_name) ==
    CachedCall(cache, CollectionKey(collection_name), TTL_COLLECTION,
               Stream(collection_name))

fetch_comments(cache, project_id) ==
    CachedCall(cache, CommentsKey(project_id), TTL_COMMENTS,
               StreamComments(project_id))

\* A store call can fail only when it is made: Outcomes(miss) are the ways a
\* cached read can go (TRUE: the store raises).
Outcomes(miss) == IF miss THEN {TRUE, FALSE} ELSE {FALSE}

\* Entries past their ttl are gone.
Expire(cache, t) ==
    LET ttl(key) == IF key = <<"fetch_comments">> THEN TTL_COMMENTS ELSE TTL_COLLECTION
        live == {key \in DOMAIN cache : t - cache[key].at < ttl(key)}
    IN [key \in live |-> cache[key]]

(***************************************************************************)
(* Lines 300-306: the listing and the settings lists.                      *)
(***************************************************************************)
HasColumn(rows, col) == \E i \in DOMAIN rows : col \in DOMAIN rows[i]

\* pd.to_datetime(..., errors='coerce') of a row's lastActivity
LastActivity(row) == Get(row, "lastActivity", NaT)

\* Insert row into a listing already in order: after every row that is not
\* older than it (NaT is older than everything: na_position='last').
RECURSIVE InsertRow(_, _)
InsertRow(sorted, row) ==
    IF sorted = <<>> THEN <<row>>
    ELSE IF LastActivity(Head(sorted)) >= LastActivity(row)
         THEN <<Head(sorted)>> \o InsertRow(Tail(sorted), row)
         ELSE <<row>> \o sorted

\* projects_df.sort_values(by='lastActivity', ascending=False, na_position='last')
RECURSIVE SortValues(_)
SortValues(rows) ==
    IF rows = <<>> THEN <<>>
    ELSE InsertRow(SortValues(SubSeq(rows, 1, Len(rows) - 1)), rows[Len(rows)])

RECURSIVE InsertName(_, _)
InsertName(sorted, n) ==
    IF sorted = <<>> THEN <<n>>
    ELSE IF NameRank(Head(sorted)) <= NameRank(n)
         THEN <<Head(sorted)>> \o InsertName(Tail(sorted), n)
         ELSE <<n>> \o sorted

\* sorted([i.get('name', '') for i in docs])
RECURSIVE SortedNames(_)
SortedNames(docs) ==
    IF docs = <<>> THEN <<>>
    ELSE InsertName(SortedNames(Tail(docs)), Get(Head(docs), "name", ""))

NoSettings == [k \in LookupKeys |-> <<>>]

\* How a run ended: "ok" (drawn to the end, or st.rerun()), "logout",
\* "saved" and "posted" (with the project written), "st.error" (a notice by
\* the script), "exception:store" (a store call raised and nothing caught it),
\* "exception:script" (a KeyError or a repeated widget key).
Ended(how) == [how |-> how, project |-> 0]
NoCharts == [drawn |-> "nothing"]
EndedOn(how, project_id) == [how |-> how, project |-> project_id]

(***************************************************************************)
(* The state after construction: one visitor, not logged in; the cache is  *)
(* empty, and the store holds one project and one region; the other lookup *)
(* lists are still empty.                                                  *)
(***************************************************************************)
SeedProject ==
    [supplierName |-> "Acme", poRef |-> "", firstContact |-> 0, mainPoc |-> "Kim",
     region |-> "EMEA", isNPI |-> "Yes", businessArea |-> "External",
     status |-> "Active", quantities |-> ZeroQuantities, lastActivity |-> 0]

SeededStore ==
    [c \in Collections |->
        IF c = "projects" THEN (10 :> SeedProject)
        ELSE IF c = "regions" THEN (11 :> [name |-> "EMEA"])
        ELSE EmptyDict]

Init ==
    /\ session_state = [s \in {"s1"} |-> EmptyDict]
    /\ user_roles = [e \in {"kim@emoldino"} |-> "editor"]
    /\ db = SeededStore
    /\ db_comments = EmptyDict
    /\ next_id = 0
    /\ now = 0
    /\ cache_data = EmptyDict
    /\ pc = [s \in {"s1"} |-> "idle"]
    /\ projects_df = [s \in {"s1"} |-> <<>>]
    /\ settings_data = [s \in {"s1"} |-> NoSettings]
    /\ login_form = [s \in {"s1"} |-> <<>>]
    /\ run_end = [s \in {"s1"} |-> Ended("ok")]
    /\ charts = [s \in {"s1"} |-> NoCharts]

(***************************************************************************)
(* Authentication.                                                         *)
(***************************************************************************)
\* firebase_auth.get_user_by_email(email) returns a user; the password is
\* not looked at
UserFoundWithSecret(email, password) ==
    email \in CredentialStore /\ password = "secret"

UserFound(email, password) == email \in CredentialStore

\* st.secrets["user_roles"].get(user.email, "readonly")
ResolveRoleDefaultEditor(email) == Get(user_roles, email, "editor")

ResolveRole(email) == Get(user_roles, email, "readonly")

\* The login form's submit button: login_user(email, password)
login_user(s, email, password) ==
    /\ ~LoggedIn(s)
    /\ pc[s] = "idle"
    /\ IF UserFound(email, password)
       THEN /\ session_state' =
                 [session_state EXCEPT ![s] =
                     Merge(@, [logged_in |-> TRUE, user_email |-> email,
                               role |-> ResolveRole(email)])]
            /\ login_form' = [login_form EXCEPT ![s] = <<>>]
            /\ run_end' = [run_end EXCEPT ![s] = Ended("ok")]
       ELSE /\ login_form' = [login_form EXCEPT ![s] = <<email>>]
            /\ run_end' = [run_end EXCEPT ![s] = Ended("st.error")]
            /\ UNCHANGED session_state
    /\ UNCHANGED <<charts, user_roles, db, db_comments, next_id, now, cache_data, pc,
                   projects_df, settings_data>>

\* for key in list(st.session_state.keys()): del st.session_state[key]
ClearedLoginOnly(ss) ==
    [k \in DOMAIN ss \ {"logged_in", "user_email", "role"} |-> ss[k]]

ClearedSession(ss) == EmptyDict

\* The end of a run's second step: the run's locals are gone.
EndRun(s, how) ==
    /\ pc' = [pc EXCEPT ![s] = "idle"]
    /\ projects_df' = [projects_df EXCEPT ![s] = <<>>]
    /\ settings_data' = [settings_data EXCEPT ![s] = NoSettings]
    /\ run_end' = [run_end EXCEPT ![s] = how]

\* The header's Logout button: logout_user()
logout_user(s) ==
    /\ pc[s] = "fetched"
    /\ session_state' = [session_state EXCEPT ![s] = ClearedSession(@)]
    /\ EndRun(s, Ended("logout"))
    /\ UNCHANGED <<charts, user_roles, db, db_comments, next_id, now, cache_data, login_form>>

(***************************************************************************)
(* The first step of a logged-in run, lines 300-306.                       *)
(***************************************************************************)
SettingsOrder == <<"regions", "pocs", "suppliers", "statuses">>

\* The five cached reads in the order the script makes them: the values
\* returned, and the cache after the last one.
RECURSIVE FetchAll(_, _)
FetchAll(cache, names) ==
    IF names = <<>> THEN [values |-> <<>>, cache |-> cache]
    ELSE LET r == fetch_collection(cache, Head(names))
             rest == FetchAll(r.cache, Tail(names))
         IN [values |-> <<r.value>> \o rest.values, cache |-> rest.cache]

Misses(cache, names) ==
    \E i \in DOMAIN names : ~Cached(cache, CollectionKey(names[i]), TTL_COLLECTION)

RunFetch(s) ==
    /\ LoggedIn(s)
    /\ pc[s] = "idle"
    /\ \E store_fails \in Outcomes(Misses(cache_data, <<"projects">> \o SettingsOrder)) :
        LET p == fetch_collection(cache_data, "projects")
            rows == p.value
            all == FetchAll(p.cache, SettingsOrder)
        IN  IF store_fails /\ Misses(cache_data, <<"projects">>)
            THEN \* db.collection(...).stream() raises at line 300
                 /\ run_end' = [run_end EXCEPT ![s] = Ended("exception:store")]
                 /\ UNCHANGED <<cache_data, pc, projects_df, settings_data>>
            ELSE IF rows # <<>> /\ ~(HasColumn(rows, "firstContact") /\ HasColumn(rows, "lastActivity"))
            THEN \* projects_df['firstContact'] or ['lastActivity'] raises KeyError
                 /\ cache_data' = p.cache
                 /\ run_end' = [run_end EXCEPT ![s] = Ended("exception:script")]
                 /\ UNCHANGED <<pc, projects_df, settings_data>>
            ELSE IF store_fails /\ Misses(p.cache, SettingsOrder)
            THEN \* a read of line 306 raises
                 /\ cache_data' = p.cache
                 /\ run_end' = [run_end EXCEPT ![s] = Ended("exception:store")]
                 /\ UNCHANGED <<pc, projects_df, settings_data>>
            ELSE /\ cache_data' = all.cache
                 /\ pc' = [pc EXCEPT ![s] = "fetched"]
                 /\ projects_df' = [projects_df EXCEPT ![s] = SortValues(rows)]
                 /\ settings_data' =
                        [settings_data EXCEPT ![s] =
                            [k \in LookupKeys |->
                                SortedNames(all.values[CHOOSE i \in 1..4 : SettingsOrder[i] = k])]]
                 /\ run_end' = [run_end EXCEPT ![s] = Ended("running")]
    /\ UNCHANGED <<charts, session_state, user_roles, db, db_comments, next_id, now, login_form>>

(***************************************************************************)
(* The rest of the script: what is on screen, and what rendering it reads. *)
(***************************************************************************)
\* Lines 329-344: the project panel, else the settings panel, else the tabs.
ViewSettingsFirst(ss) ==
    IF Truthy(ss, "show_settings_dialog") THEN "settings"
    ELSE IF Truthy(ss, "show_project_dialog") THEN "project"
    ELSE "tabs"

View(ss) ==
    IF Truthy(ss, "show_project_dialog") THEN "project"
    ELSE IF Truthy(ss, "show_settings_dialog") THEN "settings"
    ELSE "tabs"

\* project_dialog's project_data and is_new
ProjectData(ss) == Get(ss, "editing_project", EmptyDict)
IsNew(project_data) == "id" \notin DOMAIN project_data

\* is_disabled = st.session_state.role == 'readonly'
IsDisabledNever(ss) == FALSE

IsDisabled(ss) == ss["role"] = "readonly"

\* if st.session_state.role == 'editor': the header's and the grid's buttons
IsEditor(ss) == ss["role"] = "editor"

\* A run of fetch_comments calls, one per project id; the cache afterwards.
RECURSIVE FetchCommentsAll(_, _)
FetchCommentsAll(cache, ids) ==
    IF ids = <<>> THEN cache
    ELSE FetchCommentsAll(fetch_comments(cache, Head(ids)).cache, Tail(ids))

CommentsMiss(cache, ids) ==
    \E i \in DOMAIN ids : ~Cached(cache, CommentsKey(ids[i]), TTL_COMMENTS)

\* projects_df[projects_df['isNPI'] == tab], in the listing's order
RECURSIVE TabRows(_, _)
TabRows(df, tab) ==
    IF df = <<>> THEN <<>>
    ELSE (IF Get(Head(df), "isNPI", NaN) = tab THEN <<Head(df)>> ELSE <<>>)
         \o TabRows(Tail(df), tab)

Ids(rows) == [i \in DOMAIN rows |-> rows[i]["id"]]

\* The cards of a tab call fetch_comments in Grid view, the table's rows do not.
TabCalls(rows, view_type) == IF view_type = "Grid" THEN Ids(rows) ELSE <<>>

\* The summary tab reads these columns of a non-empty projects_df.
SummaryColumns == {"quantities", "region", "status", "mainPoc"}

\* Button keys del_{key}_{item} must differ: the script stops at the first
\* repeated one.  The settings columns are drawn in setting_map's order.
SettingsColumns == <<"suppliers", "statuses", "regions", "pocs">>
HasDup(seq) == \E i, j \in DOMAIN seq : i < j /\ seq[i] = seq[j]
ColumnOf(key) == CHOOSE i \in DOMAIN SettingsColumns : SettingsColumns[i] = key
ColumnsDrawn(settings, n) == \A i \in 1..n : ~HasDup(settings[SettingsColumns[i]])
DeleteDrawn(settings, key, idx) ==
    /\ ColumnsDrawn(settings, ColumnOf(key) - 1)
    /\ ~HasDup(SubSeq(settings[key], 1, idx))
AddDrawn(settings, key) == ColumnsDrawn(settings, ColumnOf(key))
SettingsDrawn(settings) == ColumnsDrawn(settings, Len(SettingsColumns))

\* The body of the script below the header, with no widget event: the cache
\* afterwards and how the run ends.  npi and retro are the tabs' "View As".
RenderBody(ss, cache, df, settings, store_fails, npi, retro) ==
    LET calls ==
            IF View(ss) = "project"
            THEN IF IsNew(ProjectData(ss)) THEN <<>> ELSE <<ProjectData(ss)["id"]>>
            ELSE IF View(ss) = "settings" \/ df = <<>> \/ ~HasColumn(df, "isNPI")
            THEN <<>>
            ELSE TabCalls(TabRows(df, "Yes"), npi) \o TabCalls(TabRows(df, "No"), retro)
    IN  IF View(ss) = "settings" /\ ~SettingsDrawn(settings)
        THEN [cache |-> cache, end |-> Ended("exception:script")]
        ELSE IF View(ss) = "tabs" /\ df # <<>>
                /\ \E c \in SummaryColumns : ~HasColumn(df, c)
        THEN [cache |-> cache, end |-> Ended("exception:script")]
        ELSE IF store_fails /\ CommentsMiss(cache, calls)
        THEN [cache |-> cache, end |-> Ended("exception:store")]
        ELSE [cache |-> FetchCommentsAll(cache, calls), end |-> Ended("ok")]

ViewTypes == {"Grid", "Table"}

\* The "View As" choices that matter: those of a tab that has rows.
ViewChoices(ss, df, tab) ==
    IF View(ss) = "tabs" /\ TabRows(df, tab) # <<>> THEN ViewTypes ELSE {"Grid"}

\* The run goes on to the end of the script with the session state ss.
FinishRun(s, ss) ==
    \E npi \in ViewChoices(ss, projects_df[s], "Yes"),
       retro \in ViewChoices(ss, projects_df[s], "No") :
        \E store_fails \in
              Outcomes(RenderBody(ss, cache_data, projects_df[s], settings_data[s],
                                  TRUE, npi, retro).end.how = "exception:store") :
            LET r == RenderBody(ss, cache_data, projects_df[s], settings_data[s],
                                store_fails, npi, retro)
            IN  /\ session_state' = [session_state EXCEPT ![s] = ss]
                /\ cache_data' = r.cache
                /\ EndRun(s, r.end)

\* A run with no widget event that changes anything here: a rerun, a filter.
Render(s) ==
    /\ pc[s] = "fetched"
    /\ FinishRun(s, session_state[s])
    /\ UNCHANGED <<charts, user_roles, db, db_comments, next_id, now, login_form>>

(***************************************************************************)
(* The header.                                                             *)
(***************************************************************************)
\* "Add New Project": no rerun, the script goes on and draws the panel
ClickAddNewProject(s) ==
    /\ pc[s] = "fetched"
    /\ IsEditor(session_state[s])
    /\ FinishRun(s, Merge(session_state[s],
                          [show_project_dialog |-> TRUE, editing_project |-> EmptyDict]))
    /\ UNCHANGED <<charts, user_roles, db, db_comments, next_id, now, login_form>>

\* "Settings": no rerun either
ClickSettings(s) ==
    /\ pc[s] = "fetched"
    /\ IsEditor(session_state[s])
    /\ FinishRun(s, Merge(session_state[s], [show_settings_dialog |-> TRUE]))
    /\ UNCHANGED <<charts, user_roles, db, db_comments, next_id, now, login_form>>

(***************************************************************************)
(* The main tabs: the buttons that open the project panel.                 *)
(***************************************************************************)
Columns(df) == UNION {DOMAIN df[i] : i \in DOMAIN df}

\* row.to_dict(): every column of the frame, NaN (NaT) where the row has none
ToDict(df, row) ==
    [c \in Columns(df) |->
        IF c = "lastActivity" THEN LastActivity(row)
        ELSE IF c = "quantities" THEN Get(row, c, NaNCell)
        ELSE Get(row, c, NaN)]

TabsDrawn(ss, df) ==
    /\ View(ss) = "tabs"
    /\ df # <<>>
    /\ HasColumn(df, "isNPI")
    /\ \A c \in SummaryColumns : HasColumn(df, c)

\* The cards and rows that fetch comments before card or row i of a tab is
\* drawn: the NPI tab is drawn before the Retrofit tab.
CallsBefore(df, tab, i, npi, retro) ==
    (IF tab = "No" THEN TabCalls(TabRows(df, "Yes"), npi) ELSE <<>>)
    \o TabCalls(SubSeq(TabRows(df, tab), 1, i - 1), IF tab = "Yes" THEN npi ELSE retro)

\* A button of row i of a tab is clicked: the panel opens on the row.
OpenProject(s, tab, i, npi, retro, store_fails) ==
    LET df == projects_df[s]
        calls == CallsBefore(df, tab, i, npi, retro)
    IN  IF store_fails /\ CommentsMiss(cache_data, calls)
        THEN /\ EndRun(s, Ended("exception:store"))
             /\ UNCHANGED <<session_state, cache_data>>
        ELSE /\ session_state' =
                  [session_state EXCEPT ![s] =
                      Merge(@, [editing_project |-> ToDict(df, TabRows(df, tab)[i]),
                                show_project_dialog |-> TRUE])]
             /\ cache_data' = FetchCommentsAll(cache_data, calls)
             /\ EndRun(s, Ended("ok"))

\* Grid view, the card's edit button, drawn for an editor only
ClickEditGrid(s) ==
    /\ pc[s] = "fetched"
    /\ TabsDrawn(session_state[s], projects_df[s])
    /\ IsEditor(session_state[s])
    /\ \E tab \in {"Yes", "No"}, npi \in ViewTypes :
        \E i \in DOMAIN TabRows(projects_df[s], tab) :
            LET view == IF tab = "Yes" THEN "Grid" ELSE npi
            IN \E store_fails \in
                   Outcomes(CommentsMiss(cache_data,
                               CallsBefore(projects_df[s], tab, i, view, "Grid"))) :
                   OpenProject(s, tab, i, view, "Grid", store_fails)
    /\ UNCHANGED <<charts, user_roles, db, db_comments, next_id, now, login_form>>

\* Table view, the row's View/Edit button, drawn for every role
ClickViewEditTable(s) ==
    /\ pc[s] = "fetched"
    /\ TabsDrawn(session_state[s], projects_df[s])
    /\ \E tab \in {"Yes", "No"}, npi \in ViewTypes :
        \E i \in DOMAIN TabRows(projects_df[s], tab) :
            LET view == IF tab = "Yes" THEN "Table" ELSE npi
            IN \E store_fails \in
                   Outcomes(CommentsMiss(cache_data,
                               CallsBefore(projects_df[s], tab, i, view, "Table"))) :
                   OpenProject(s, tab, i, view, "Table", store_fails)
    /\ UNCHANGED <<charts, user_roles, db, db_comments, next_id, now, login_form>>

(***************************************************************************)
(* The project panel: project_dialog and its Close Window button.          *)
(***************************************************************************)
\* What a selectbox over options can return: one of the options, None when
\* there is none.
Selectable(options) == IF options = <<>> THEN {NoneVal} ELSE Range(options)

\* The payload of line 199.
Payload(fill, supplierName, mainPoc, region, status) ==
    [supplierName |-> supplierName, poRef |-> fill.poRef,
     firstContact |-> fill.firstContact, mainPoc |-> mainPoc, region |-> region,
     isNPI |-> fill.isNPI, businessArea |-> fill.businessArea, status |-> status,
     quantities |-> fill.quantities, lastActivity |-> now]

\* db.collection("projects").add(payload)
AddProject(payload) ==
    /\ next_id < MaxIds
    /\ next_id' = next_id + 1
    /\ db' = [db EXCEPT !["projects"] = Merge(@, [i \in {next_id + 1} |-> payload])]

\* A write that keeps what is stored where the payload differs.
SetKeepStored(project_id, payload) ==
    /\ db' = [db EXCEPT !["projects"] =
                Merge(@, [i \in {project_id} |->
                             Merge(payload, Get(@, project_id, EmptyDict))])]
    /\ UNCHANGED next_id

\* db.collection("projects").document(id).set(payload, merge=True)
SetMerge(project_id, payload) ==
    /\ db' = [db EXCEPT !["projects"] =
                Merge(@, [i \in {project_id} |->
                             Merge(Get(@, project_id, EmptyDict), payload)])]
    /\ UNCHANGED next_id

\* The comments section of the panel reads the comments of a saved project.
PanelCalls(project_data) ==
    IF IsNew(project_data) THEN <<>> ELSE <<project_data["id"]>>

\* "Save Project"
SaveProject(s) ==
    /\ pc[s] = "fetched"
    /\ View(session_state[s]) = "project"
    /\ ~IsDisabled(session_state[s])
    /\ \E fill \in FormFills, store_fails \in BOOLEAN,
          supplierName \in Selectable(settings_data[s]["suppliers"]),
          mainPoc \in Selectable(settings_data[s]["pocs"]),
          region \in Selectable(settings_data[s]["regions"]),
          status \in Selectable(settings_data[s]["statuses"]) :
        LET project_data == ProjectData(session_state[s])
            payload == Payload(fill, supplierName, mainPoc, region, status)
        IN  IF store_fails
            THEN \* except Exception: st.error; the panel's comments follow
                 /\ cache_data' = FetchCommentsAll(cache_data, PanelCalls(project_data))
                 /\ EndRun(s, Ended("st.error"))
                 /\ UNCHANGED <<session_state, db, next_id>>
            ELSE /\ IF IsNew(project_data)
                    THEN AddProject(payload)
                    ELSE SetMerge(project_data["id"], payload)
                 /\ session_state' =
                      [session_state EXCEPT ![s] = Merge(@, [show_project_dialog |-> FALSE])]
                 /\ cache_data' = EmptyDict
                 /\ EndRun(s, EndedOn("saved",
                                      IF IsNew(project_data) THEN next_id + 1
                                      ELSE project_data["id"]))
    /\ UNCHANGED <<charts, user_roles, db_comments, now, login_form>>

\* The store with no comment added: what a rollback of the add would leave.
AddCommentRolledBack(project_id, comment) == db_comments

\* ...document(id).collection("comments").add({...}): the sub-collection
\* with the comment appended
AddComment(project_id, comment) ==
    Merge(db_comments,
          [i \in {project_id} |-> Append(StreamComments(project_id), comment)])

\* The comment form's "Post": the comments are read and listed first, then
\* the comment is added and the project touched.
PostComment(s) ==
    /\ pc[s] = "fetched"
    /\ View(session_state[s]) = "project"
    /\ ~IsNew(ProjectData(session_state[s]))
    /\ \E new_comment \in CommentTexts, fails \in {"none", "read", "add", "update"} :
        LET project_id == ProjectData(session_state[s])["id"]
            comment == [text |-> new_comment,
                        user |-> session_state[s]["user_email"],
                        timestamp |-> now, id |-> next_id + 1]
            read == fetch_comments(cache_data, project_id)
        IN  IF fails = "read"
            THEN /\ CommentsMiss(cache_data, <<project_id>>)
                 /\ new_comment = ""
                 /\ EndRun(s, Ended("exception:store"))
                 /\ UNCHANGED <<cache_data, db, db_comments, next_id>>
            ELSE IF new_comment = ""
            THEN \* if new_comment: nothing is posted
                 /\ fails = "none"
                 /\ cache_data' = read.cache
                 /\ EndRun(s, Ended("ok"))
                 /\ UNCHANGED <<db, db_comments, next_id>>
            ELSE IF fails = "add"
            THEN /\ cache_data' = read.cache
                 /\ EndRun(s, Ended("exception:store"))
                 /\ UNCHANGED <<db, db_comments, next_id>>
            ELSE /\ next_id < MaxIds
                 /\ next_id' = next_id + 1
                 /\ db_comments' = AddComment(project_id, comment)
                 /\ IF fails = "update" \/ project_id \notin DOMAIN db["projects"]
                    THEN \* .update() raises: the comment stays
                         /\ cache_data' = read.cache
                         /\ EndRun(s, EndedOn("exception:store", project_id))
                         /\ UNCHANGED db
                    ELSE /\ db' = [db EXCEPT !["projects"][project_id] =
                                     Merge(@, [lastActivity |-> now])]
                         /\ cache_data' = EmptyDict
                         /\ EndRun(s, EndedOn("posted", project_id))
    /\ UNCHANGED <<charts, session_state, user_roles, now, login_form>>

\* "Close Window", drawn after the panel
CloseWindow(s) ==
    /\ pc[s] = "fetched"
    /\ View(session_state[s]) = "project"
    /\ \E store_fails \in
          Outcomes(CommentsMiss(cache_data, PanelCalls(ProjectData(session_state[s])))) :
        LET calls == PanelCalls(ProjectData(session_state[s]))
        IN  IF store_fails /\ CommentsMiss(cache_data, calls)
            THEN /\ EndRun(s, Ended("exception:store"))
                 /\ UNCHANGED <<session_state, cache_data>>
            ELSE /\ session_state' =
                      [session_state EXCEPT ![s] = Merge(@, [show_project_dialog |-> FALSE])]
                 /\ cache_data' = FetchCommentsAll(cache_data, calls)
                 /\ EndRun(s, Ended("ok"))
    /\ UNCHANGED <<charts, user_roles, db, db_comments, next_id, now, login_form>>

(***************************************************************************)
(* The settings panel: settings_dialog and its Close Settings button.      *)
(***************************************************************************)
\* next((d for d in docs if d.get('name') == item), None): the index, 0 if none
DocToDelete(docs, item) ==
    LET found == {i \in DOMAIN docs : Get(docs[i], "name", NoneVal) = item}
    IN IF found = {} THEN 0 ELSE Min(found)

\* The delete button of item idx of a settings column
DeleteLookup(s) ==
    /\ pc[s] = "fetched"
    /\ View(session_state[s]) = "settings"
    /\ \E key \in LookupKeys, fails \in {"none", "read", "delete"} :
        \E idx \in DOMAIN settings_data[s][key] :
            LET item == settings_data[s][key][idx]
                read == fetch_collection(cache_data, key)
                found == DocToDelete(read.value, item)
            IN  /\ DeleteDrawn(settings_data[s], key, idx)
                /\ IF fails = "read" /\ Misses(cache_data, <<key>>)
                   THEN /\ EndRun(s, Ended("exception:store"))
                        /\ UNCHANGED <<cache_data, db>>
                   ELSE IF found = 0
                   THEN \* nothing to delete: the script goes on
                        /\ cache_data' = read.cache
                        /\ EndRun(s, IF SettingsDrawn(settings_data[s])
                                     THEN Ended("ok")
                                     ELSE Ended("exception:script"))
                        /\ UNCHANGED db
                   ELSE IF fails = "delete"
                   THEN /\ cache_data' = read.cache
                        /\ EndRun(s, Ended("exception:store"))
                        /\ UNCHANGED db
                   ELSE \* deleting a document that is gone succeeds too
                        /\ db' = [db EXCEPT ![key] =
                                    [i \in DOMAIN @ \ {read.value[found]["id"]} |-> @[i]]]
                        /\ cache_data' = EmptyDict
                        /\ EndRun(s, Ended("ok"))
    /\ UNCHANGED <<charts, session_state, user_roles, db_comments, next_id, now, login_form>>

\* The "Add" form of a settings column
AddLookup(s) ==
    /\ pc[s] = "fetched"
    /\ View(session_state[s]) = "settings"
    /\ \E key \in LookupKeys, new_item \in NewItems, store_fails \in BOOLEAN :
        /\ AddDrawn(settings_data[s], key)
        /\ IF new_item = ""
           THEN \* "and new_item": nothing is added
                /\ EndRun(s, IF SettingsDrawn(settings_data[s])
                             THEN Ended("ok")
                             ELSE Ended("exception:script"))
                /\ UNCHANGED <<db, next_id, cache_data>>
           ELSE IF store_fails
           THEN /\ EndRun(s, Ended("exception:store"))
                /\ UNCHANGED <<db, next_id, cache_data>>
           ELSE /\ next_id < MaxIds
                /\ next_id' = next_id + 1
                /\ db' = [db EXCEPT ![key] =
                            Merge(@, [i \in {next_id + 1} |-> [name |-> new_item]])]
                /\ cache_data' = EmptyDict
                /\ EndRun(s, Ended("ok"))
    /\ UNCHANGED <<charts, session_state, user_roles, db_comments, now, login_form>>

\* "Close Settings", drawn after the panel
CloseSettings(s) ==
    /\ pc[s] = "fetched"
    /\ View(session_state[s]) = "settings"
    /\ SettingsDrawn(settings_data[s])
    /\ session_state' =
          [session_state EXCEPT ![s] = Merge(@, [show_settings_dialog |-> FALSE])]
    /\ EndRun(s, Ended("ok"))
    /\ UNCHANGED <<charts, user_roles, db, db_comments, next_id, now, cache_data, login_form>>

(***************************************************************************)
(* The environment: time passes; the role configuration is redeployed.     *)
(***************************************************************************)
Tick ==
    /\ now + TickStep <= MaxTime
    /\ now' = now + TickStep
    /\ cache_data' = Expire(cache_data, now + TickStep)
    /\ UNCHANGED <<charts, session_state, user_roles, db, db_comments, next_id, pc,
                   projects_df, settings_data, login_form, run_end>>

EditRoleTable ==
    /\ \E table \in RoleTables : table # user_roles /\ user_roles' = table
    /\ UNCHANGED <<charts, session_state, db, db_comments, next_id, now, cache_data, pc,
                   projects_df, settings_data, login_form, run_end>>

Next ==
    \/ \E s \in Live, email \in Emails, password \in Passwords :
            login_user(s, email, password)
    \/ \E s \in Live : logout_user(s)
    \/ \E s \in Live : RunFetch(s)
    \/ \E s \in Live : Render(s)
    \/ \E s \in Live : ClickAddNewProject(s)
    \/ \E s \in Live : ClickSettings(s)
    \/ \E s \in Live : ClickEditGrid(s)
    \/ \E s \in Live : ClickViewEditTable(s)
    \/ \E s \in Live : SaveProject(s)
    \/ \E s \in Live : PostComment(s)
    \/ \E s \in Live : CloseWindow(s)
    \/ \E s \in Live : DeleteLookup(s)
    \/ \E s \in Live : AddLookup(s)
    \/ \E s \in Live : CloseSettings(s)
    \/ Tick
    \/ EditRoleTable

Spec == Init /\ [][Next]_vars

(***************************************************************************)
(* Two editors at work at once, each in a session of its own, on the same  *)
(* store and the same st.cache_data: s1 works on the projects, s2 has the  *)
(* settings panel open and keeps the lookup lists.                         *)
(***************************************************************************)
EditorSession == [logged_in |-> TRUE, user_email |-> "kim@emoldino", role |-> "editor"]

InitDuo ==
    /\ session_state =
          [s \in Sessions |->
              IF s = "s2" THEN Merge(EditorSession, [show_settings_dialog |-> TRUE])
              ELSE EditorSession]
    /\ user_roles = [e \in {"kim@emoldino"} |-> "editor"]
    /\ db = SeededStore
    /\ db_comments = EmptyDict
    /\ next_id = 0
    /\ now = 0
    /\ cache_data = EmptyDict
    /\ pc = [s \in Sessions |-> "idle"]
    /\ projects_df = [s \in Sessions |-> <<>>]
    /\ settings_data = [s \in Sessions |-> NoSettings]
    /\ login_form = [s \in Sessions |-> <<>>]
    /\ run_end = [s \in Sessions |-> Ended("ok")]
    /\ charts = [s \in Sessions |-> NoCharts]

NextDuo ==
    \/ \E s \in Live : RunFetch(s)
    \/ \E s \in Live : Render(s)
    \/ \E s \in Live : ClickEditGrid(s)
    \/ \E s \in Live : ClickViewEditTable(s)
    \/ \E s \in Live : SaveProject(s)
    \/ \E s \in Live : PostComment(s)
    \/ \E s \in Live : CloseWindow(s)
    \/ \E s \in Live : DeleteLookup(s)
    \/ \E s \in Live : AddLookup(s)
    \/ Tick

SpecDuo == InitDuo /\ [][NextDuo]_vars

(***************************************************************************)
(* Two editors over the listing, each free to open a project by its edit   *)
(* button, to save it and to close the panel.                              *)
(***************************************************************************)
InitPair ==
    /\ session_state = [s \in Sessions |-> EditorSession]
    /\ user_roles = [e \in {"kim@emoldino"} |-> "editor"]
    /\ db = SeededStore
    /\ db_comments = EmptyDict
    /\ next_id = 0
    /\ now = 0
    /\ cache_data = EmptyDict
    /\ pc = [s \in Sessions |-> "idle"]
    /\ projects_df = [s \in Sessions |-> <<>>]
    /\ settings_data = [s \in Sessions |-> NoSettings]
    /\ login_form = [s \in Sessions |-> <<>>]
    /\ run_end = [s \in Sessions |-> Ended("ok")]
    /\ charts = [s \in Sessions |-> NoCharts]

NextPair ==
    \/ \E s \in Live : RunFetch(s)
    \/ \E s \in Live : ClickEditGrid(s)
    \/ \E s \in Live : SaveProject(s)
    \/ \E s \in Live : CloseWindow(s)
    \/ Tick

SpecPair == InitPair /\ [][NextPair]_vars

(***************************************************************************)
(* Lines 346-374, 392-396 and 464-474: what the tabs compute from the      *)
(* listing.  SpecAgg draws the projects snapshot from Snapshots and lets   *)
(* one editor's runs draw the tabs over it.                                *)
(***************************************************************************)
BusinessFilters == {"All", "External", "Internal"}
PricingFilters == {"All", "Bundled", "Not Bundled"}

\* summary_df['quantities'] of a row: NaN where the document has no such field
QuantitiesCell(row) == Get(row, "quantities", NaNCell)

\* lambda q: q.get('sensor', {}).get('qty', 0) if isinstance(q, dict) else 0
sensor_qty(q) ==
    IF isinstance_dict(q) THEN Get(Get(q.items, "sensor", EmptyDict), "qty", 0) ELSE 0

\* lambda q: any(item.get('bundled', False) for item in q.values())
\*           if isinstance(q, dict) else False
has_bundled(q) ==
    IF isinstance_dict(q)
    THEN \E k \in DOMAIN q.items : Get(q.items[k], "bundled", FALSE)
    ELSE FALSE

\* summary_df[summary_df['businessArea'] == business_filter]
RECURSIVE FilterBusiness(_, _)
FilterBusiness(df, business_filter) ==
    IF df = <<>> THEN <<>>
    ELSE (IF business_filter = "All" \/ Get(Head(df), "businessArea", NaN) = business_filter
          THEN <<Head(df)>> ELSE <<>>)
         \o FilterBusiness(Tail(df), business_filter)

\* the sum of sensor_qty over the rows of one region
RECURSIVE SumSensors(_, _)
SumSensors(df, region) ==
    IF df = <<>> THEN 0
    ELSE (IF Head(df)["region"] = region THEN sensor_qty(QuantitiesCell(Head(df))) ELSE 0)
         + SumSensors(Tail(df), region)

\* summary_df.groupby('region')['sensor_qty'].sum()
sensors_by_region(df) ==
    [region \in {df[i]["region"] : i \in DOMAIN df} |-> SumSensors(df, region)]

\* The rows render_project_page keeps under its Pricing filter, the other
\* filters of the page left at "All".
RECURSIVE FilterPricing(_, _)
FilterPricing(data, pricing_filter) ==
    IF data = <<>> THEN <<>>
    ELSE (IF pricing_filter = "All"
             \/ has_bundled(QuantitiesCell(Head(data))) = (pricing_filter = "Bundled")
          THEN <<Head(data)>> ELSE <<>>)
         \o FilterPricing(Tail(data), pricing_filter)

ProjectPage(df, tab, pricing_filter) ==
    IF HasColumn(df, "isNPI")
    THEN Range(Ids(FilterPricing(TabRows(df, tab), pricing_filter)))
    ELSE {}

\* What the three tabs show of a listing: nothing to chart for an empty
\* one; a KeyError where the summary tab reads a column that no document of
\* the snapshot has; the sums and the pages' projects otherwise.
TabsCharts(df, business_filter, npi_pricing, retro_pricing) ==
    IF df = <<>> THEN [drawn |-> "st.info"]
    ELSE IF \E c \in SummaryColumns : ~HasColumn(df, c) THEN [drawn |-> "KeyError"]
    ELSE [drawn |-> "charts",
          business_filter |-> business_filter,
          npi_pricing |-> npi_pricing,
          retro_pricing |-> retro_pricing,
          sensors_by_region |-> sensors_by_region(FilterBusiness(df, business_filter)),
          npi |-> ProjectPage(df, "Yes", npi_pricing),
          retrofit |-> ProjectPage(df, "No", retro_pricing)]

\* A run that draws the tabs under the filters the user has set.
DrawTabs(s) ==
    /\ pc[s] = "fetched"
    /\ View(session_state[s]) = "tabs"
    /\ \E business_filter \in BusinessFilters,
          npi_pricing \in PricingFilters, retro_pricing \in PricingFilters :
          charts' = [charts EXCEPT ![s] =
                        TabsCharts(projects_df[s], business_filter,
                                   npi_pricing, retro_pricing)]
    /\ FinishRun(s, session_state[s])
    /\ UNCHANGED <<user_roles, db, db_comments, next_id, now, login_form>>

\* The quantities a stored project may hold: none, a str, an empty dict, a
\* dict of bundled sensors, a dict of sensors with no 'bundled'.
QuantitiesValues ==
    { Str("n/a"), Dict(EmptyDict),
      Dict([sensor |-> [qty |-> 2, bundled |-> TRUE]]),
      Dict([sensor |-> [qty |-> 3], terminal |-> [bundled |-> FALSE]]) }

ProjectsOf(project_id) ==
    LET base == [supplierName |-> "Acme", poRef |-> "", firstContact |-> 0,
                 mainPoc |-> "Kim", isNPI |-> IF project_id = 10 THEN "Yes" ELSE "No",
                 businessArea |-> "External", status |-> "Active", lastActivity |-> 0]
        placed == {Merge(base, [region |-> r]) : r \in {"EMEA", "APAC"}}
    IN  placed \cup {Merge(p, [quantities |-> q]) : p \in placed, q \in QuantitiesValues}

Snapshots ==
    UNION { {f \in [10..(9 + n) -> UNION {ProjectsOf(i) : i \in 10..(9 + n)}] :
                \A i \in DOMAIN f : f[i] \in ProjectsOf(i)} : n \in 1..MaxRows }

InitAgg ==
    /\ session_state = [s \in {"s1"} |-> EditorSession]
    /\ user_roles = [e \in {"kim@emoldino"} |-> "editor"]
    /\ \E snapshot \in Snapshots : db = [SeededStore EXCEPT !["projects"] = snapshot]
    /\ db_comments = EmptyDict
    /\ next_id = 0
    /\ now = 0
    /\ cache_data = EmptyDict
    /\ pc = [s \in {"s1"} |-> "idle"]
    /\ projects_df = [s \in {"s1"} |-> <<>>]
    /\ settings_data = [s \in {"s1"} |-> NoSettings]
    /\ login_form = [s \in {"s1"} |-> <<>>]
    /\ run_end = [s \in {"s1"} |-> Ended("ok")]
    /\ charts = [s \in {"s1"} |-> NoCharts]

NextAgg ==
    \/ \E s \in Live : RunFetch(s)
    \/ \E s \in Live : DrawTabs(s)

SpecAgg == InitAgg /\ [][NextAgg]_vars

(***************************************************************************)
(* The claims.                                                             *)
(***************************************************************************)
\* A step of session s that starts a run's reads and gets them.
Reads(s) == pc[s] = "idle" /\ pc'[s] = "fetched"

\* A step of session s that runs the rest of the script.
Acts(s) == pc[s] = "fetched" /\ pc'[s] = "idle"

Names(docs) == {Get(docs[i], "name", "") : i \in DOMAIN docs}

\* C1: a read issued when nothing is cached (the first read after a write,
\* which clears the cache, or a read after the window, when the entry is
\* gone) returns the latest store state: the listing is the projects
\* collection as stored, each settings list the names stored in its lookup
\* collection.
C1_ReadAfterClearIsLatest ==
    [][\A s \in Live :
          (Reads(s) /\ cache_data = EmptyDict) =>
              /\ projects_df'[s] = SortValues(Stream("projects"))
              /\ \A k \in LookupKeys :
                    settings_data'[s][k] = SortedNames(Stream(k))]_vars

\* C2: a read returns a snapshot of the collection it named: the rows of
\* the listing are documents of the projects collection, and every name of a
\* settings list is a name that its own lookup collection holds or has held
\* (the names it starts with and the names the Add forms can submit).
NamesEver(k) == Names(Stream(k)) \cup {Get(SeededStore[k][i], "name", "") : i \in DOMAIN SeededStore[k]}
                \cup (NewItems \ {""})

C2_ReadReturnsTheNamedCollection ==
    [][\A s \in Live :
          Reads(s) =>
              /\ \A i \in DOMAIN projects_df'[s] :
                    projects_df'[s][i]["id"] \in DOMAIN db["projects"]
              /\ \A k \in LookupKeys :
                    Range(settings_data'[s][k]) \subseteq NamesEver(k)]_vars

\* C3: a step of a readonly session never saves a project (create or
\* update) and never adds or deletes a lookup entry: it leaves the lookup
\* collections and the set of projects as they are, and changes a project
\* only by the lastActivity touch of a posted comment.
OnlyTouched(old, new) ==
    /\ DOMAIN new = DOMAIN old
    /\ \A f \in DOMAIN old \ {"lastActivity"} : new[f] = old[f]

C3_ReadonlyNeverWrites ==
    [][\A s \in Live :
          (Acts(s) /\ session_state[s]["role"] = "readonly") =>
              /\ run_end'[s].how # "saved"
              /\ \A k \in LookupKeys : db'[k] = db[k]
              /\ DOMAIN db'["projects"] = DOMAIN db["projects"]
              /\ \A p \in DOMAIN db["projects"] :
                    db'["projects"][p] # db["projects"][p] =>
                        /\ run_end'[s] = EndedOn("posted", p)
                        /\ OnlyTouched(db["projects"][p], db'["projects"][p])]_vars

\* A readonly session has opened the project panel on a stored project (by
\* the table's View/Edit button) and is running the script on it.
C3_Witness ==
    \E s \in Live :
        /\ pc[s] = "fetched"
        /\ session_state[s]["role"] = "readonly"
        /\ View(session_state[s]) = "project"
        /\ ~IsNew(ProjectData(session_state[s]))

\* C4: logout leaves no session field at all, whatever was open, so the
\* session is a new session's; and a session that logs in has the three
\* login fields and no other: no panel flag, no editing target.
LoginFields == {"logged_in", "user_email", "role"}

C4_LogoutClearsSession ==
    [][\A s \in Live :
          /\ (LoggedIn(s) /\ ~LoggedIn(s)') => session_state'[s] = EmptyDict
          /\ run_end'[s].how = "logout" => session_state'[s] = EmptyDict
          /\ (~LoggedIn(s) /\ LoggedIn(s)') => DOMAIN session_state'[s] = LoginFields]_vars

\* A session has logged out and shows the login form again.
C4_Witness ==
    \E s \in Live : run_end[s].how = "logout" /\ ~LoggedIn(s) /\ pc[s] = "idle"

\* C5: the role is what the role table gives the identity when the session
\* logs in, "readonly" when the table does not hold it, and stays the same
\* for as long as the session is logged in, whatever becomes of the table.
C5_RoleFixedAtLogin ==
    [][\A s \in Live :
          LoggedIn(s)' =>
              IF LoggedIn(s)
              THEN session_state'[s]["role"] = session_state[s]["role"]
              ELSE session_state'[s]["role"] =
                      Get(user_roles, session_state'[s]["user_email"], "readonly")]_vars

\* A logged-in session whose role is no longer what the table says.
C5_Witness ==
    \E s \in Live :
        /\ LoggedIn(s)
        /\ session_state[s]["role"] #
              Get(user_roles, session_state[s]["user_email"], "readonly")

\* C6: a session is Anonymous (no field) or Authenticated (logged in as a
\* user of the Credential Store, with a role); a login that fails was for an
\* identity the Credential Store does not hold, whatever the secret, and
\* leaves no field; only a logged-in session is in a run that reads, and
\* only a step of a logged-in session changes the store or fills the cache.
Anonymous(s) == session_state[s] = EmptyDict
Authenticated(s) ==
    /\ LoggedIn(s)
    /\ session_state[s]["user_email"] \in CredentialStore
    /\ "role" \in DOMAIN session_state[s]

C6_AnonymousOrAuthenticated ==
    [][\A s \in Live :
          /\ Anonymous(s)' \/ Authenticated(s)'
          /\ login_form'[s] # <<>> =>
                Anonymous(s)' /\ login_form'[s][1] \notin CredentialStore
          /\ pc'[s] = "fetched" => Authenticated(s)'
          /\ (Anonymous(s) /\ Anonymous(s)') =>
                \/ <<db, db_comments>>' = <<db, db_comments>>
                      /\ cache_data' \in {cache_data, Expire(cache_data, now')}
                \/ \E t \in Live : Authenticated(t) /\ pc'[t] # pc[t]]_vars

\* A session that logged in is in a run and has made its reads.
C6_Witness ==
    \E s \in Live : Authenticated(s) /\ pc[s] = "fetched" /\ cache_data # EmptyDict

\* C7: a successful save or post on project P leaves P's lastActivity at the
\* store's time of the write, and the next listing the session gets has P in
\* it, before every project whose lastActivity is older or absent.
Wrote(e) == e.how \in {"saved", "posted"}

ListedFirst(df, project_id) ==
    \E i \in DOMAIN df :
        /\ df[i]["id"] = project_id
        /\ \A j \in DOMAIN df :
              LastActivity(df[j]) < LastActivity(df[i]) => i < j

C7_WrittenProjectListedFirst ==
    [][\A s \in Live :
          /\ (Acts(s) /\ Wrote(run_end'[s])) =>
                db'["projects"][run_end'[s].project]["lastActivity"] = now
          /\ (Reads(s) /\ Wrote(run_end[s])) =>
                ListedFirst(projects_df'[s], run_end[s].project)]_vars

\* C8: no failure of a store operation leaves its handler uncaught.
C8_StoreFailuresAreCaught ==
    \A s \in Live : run_end[s].how # "exception:store"

\* C9: over a snapshot with a project whose quantities is missing or is not
\* a mapping, drawing the tabs raises no error; such a project adds nothing
\* to the sensors-by-region sums, which are the sums over the projects with
\* a mapping; and the pricing filter counts it as not bundled: "Bundled"
\* leaves it out, "Not Bundled" keeps it.
NoMapping(row) == ~isinstance_dict(QuantitiesCell(row))

RECURSIVE WithMapping(_)
WithMapping(df) ==
    IF df = <<>> THEN <<>>
    ELSE (IF NoMapping(Head(df)) THEN <<>> ELSE <<Head(df)>>) \o WithMapping(Tail(df))

PageOf(drawn, row) ==
    IF row["isNPI"] = "Yes" THEN [pricing |-> drawn.npi_pricing, ids |-> drawn.npi]
    ELSE [pricing |-> drawn.retro_pricing, ids |-> drawn.retrofit]

C9_NoMappingCountsZeroNotBundled ==
    [][\A s \in Live :
          (Acts(s) /\ charts'[s] # charts[s]
             /\ \E i \in DOMAIN projects_df[s] : NoMapping(projects_df[s][i])) =>
              LET df == projects_df[s]
                  drawn == charts'[s]
              IN  /\ run_end'[s].how # "exception:script"
                  /\ drawn.drawn = "charts"
                  /\ \A r \in DOMAIN drawn.sensors_by_region :
                        drawn.sensors_by_region[r] =
                            SumSensors(WithMapping(FilterBusiness(df, drawn.business_filter)), r)
                  /\ \A i \in DOMAIN df :
                        NoMapping(df[i]) =>
                            /\ PageOf(drawn, df[i]).pricing = "Bundled" =>
                                  df[i]["id"] \notin PageOf(drawn, df[i]).ids
                            /\ PageOf(drawn, df[i]).pricing = "Not Bundled" =>
                                  df[i]["id"] \in PageOf(drawn, df[i]).ids]_vars

\* C10: a project create or update writes a mainPoc, a region, a
\* supplierName and a status that are each the name of an entry of the
\* corresponding lookup collection as it is at the write.
LookupOf == [mainPoc |-> "pocs", region |-> "regions",
             supplierName |-> "suppliers", status |-> "statuses"]

C10_WrittenValuesAreLookupEntries ==
    [][\A s \in Live :
          (Acts(s) /\ run_end'[s].how = "saved") =>
              \A f \in DOMAIN LookupOf :
                  db'["projects"][run_end'[s].project][f]
                      \in {db[LookupOf[f]][i]["name"] : i \in DOMAIN db[LookupOf[f]]}]_vars

\* C11: a post is the append of the comment and then the touch of the
\* project, each a write of its own.  A post that succeeds leaves one more
\* comment and the project's lastActivity at the store's time.  When the
\* append went through and the touch fails, the comment is in the project's
\* sub-collection, once, with the poster's identity, and the projects are as
\* they were: lastActivity keeps its value.  No step ever takes a comment
\* back.
IsPrefix(old, new) == Len(old) <= Len(new) /\ SubSeq(new, 1, Len(old)) = old

Appended(s, project_id) ==
    /\ project_id \in DOMAIN db_comments'
    /\ Len(db_comments'[project_id]) = Len(StreamComments(project_id)) + 1
    /\ IsPrefix(StreamComments(project_id), db_comments'[project_id])
    /\ LET c == db_comments'[project_id][Len(db_comments'[project_id])]
       IN  c.text # "" /\ c.user = session_state[s]["user_email"] /\ c.timestamp = now

TouchFailed(e) == e.how = "exception:store" /\ e.project # 0

C11_CommentStaysWhenTouchFails ==
    [][/\ \A s \in Live :
            Acts(s) =>
                /\ TouchFailed(run_end'[s]) =>
                      Appended(s, run_end'[s].project) /\ db' = db
                /\ run_end'[s].how = "posted" =>
                      /\ Appended(s, run_end'[s].project)
                      /\ db'["projects"][run_end'[s].project]["lastActivity"] = now
       /\ \A p \in DOMAIN db_comments :
            p \in DOMAIN db_comments' /\ IsPrefix(db_comments[p], db_comments'[p])]_vars

\* A post's touch failed: the project has the comment, and a lastActivity
\* older than the comment.
C11_Witness ==
    \E s \in Live :
        /\ TouchFailed(run_end[s])
        /\ StreamComments(run_end[s].project) # <<>>
        /\ \E i \in DOMAIN StreamComments(run_end[s].project) :
              LastActivity(db["projects"][run_end[s].project])
                  < StreamComments(run_end[s].project)[i].timestamp

\* C12: a save of a stored project that the store accepts leaves the project
\* with every field of the payload at the value this save submitted and its
\* other fields as they were, whatever the session's snapshot of the project
\* says and whoever saved the project in between; an editor with the panel
\* open on a stored project can always save, however stale the snapshot: no
\* conflict is reported and the later save overwrites the earlier.
Submitted(s) ==
    {Payload(fill, supplierName, mainPoc, region, status) :
        fill \in FormFills,
        supplierName \in Selectable(settings_data[s]["suppliers"]),
        mainPoc \in Selectable(settings_data[s]["pocs"]),
        region \in Selectable(settings_data[s]["regions"]),
        status \in Selectable(settings_data[s]["statuses"])}

Saves(s) == SaveProject(s) /\ run_end'[s].how = "saved"

Editing(s) ==
    /\ pc[s] = "fetched"
    /\ View(session_state[s]) = "project"
    /\ ~IsNew(ProjectData(session_state[s]))

C12_LaterSaveWins ==
    [][\A s \in Live :
          /\ Editing(s) => ENABLED Saves(s)
          /\ (Editing(s) /\ Acts(s) /\ run_end'[s].how = "saved") =>
                LET project_id == ProjectData(session_state[s])["id"]
                IN  /\ run_end'[s].project = project_id
                    /\ \E payload \in Submitted(s) :
                          db' = [db EXCEPT !["projects"][project_id] = Merge(@, payload)]]_vars

\* Both editors took their snapshot of the project before either saved it,
\* and both have saved it.
C12_Witness ==
    \E s, t \in Live :
        /\ s # t
        /\ run_end[s].how = "saved" /\ run_end[t] = run_end[s]
        /\ ProjectData(session_state[s]) = ProjectData(session_state[t])
        /\ ProjectData(session_state[s])["supplierName"] = "Acme"
        /\ db["projects"][run_end[s].project]["supplierName"] # "Acme"

\* C13: a run of a logged-in session shows one view: the project panel
\* when show_project_dialog is set, whatever show_settings_dialog is; the
\* settings panel when show_settings_dialog is set and show_project_dialog
\* is not; the tabs when neither is.  So a save, a post and Close Window
\* happen with show_project_dialog set, a lookup add or delete and Close
\* Settings with only show_settings_dialog set, and a project is opened from
\* the listing with neither set.  A successful save and Close Window change
\* show_project_dialog (to unset) and no other session field, Close Settings
\* show_settings_dialog and no other.
ProjectFlag(ss) == Truthy(ss, "show_project_dialog")
SettingsFlag(ss) == Truthy(ss, "show_settings_dialog")

Shown(ss) ==
    /\ View(ss) \in {"project", "settings", "tabs"}
    /\ View(ss) = "project" <=> ProjectFlag(ss)
    /\ View(ss) = "settings" <=> (SettingsFlag(ss) /\ ~ProjectFlag(ss))
    /\ View(ss) = "tabs" <=> (~SettingsFlag(ss) /\ ~ProjectFlag(ss))

OnlyUnset(old, new, flag) == new = Merge(old, [f \in {flag} |-> FALSE])

C13_OneViewShown ==
    [][\A s \in Live :
          Acts(s) =>
              LET old == session_state[s]
                  new == session_state'[s]
              IN  /\ Shown(old)
                  /\ (Wrote(run_end'[s]) \/ TouchFailed(run_end'[s])
                        \/ run_end'[s].how = "st.error") => ProjectFlag(old)
                  /\ run_end'[s].how = "saved" =>
                        OnlyUnset(old, new, "show_project_dialog")
                  /\ (ProjectFlag(old) /\ ~ProjectFlag(new) /\ LoggedIn(s)') =>
                        OnlyUnset(old, new, "show_project_dialog")
                  /\ (\E k \in LookupKeys : db'[k] # db[k]) =>
                        SettingsFlag(old) /\ ~ProjectFlag(old)
                  /\ (SettingsFlag(old) /\ ~SettingsFlag(new) /\ LoggedIn(s)') =>
                        /\ ~ProjectFlag(old)
                        /\ OnlyUnset(old, new, "show_settings_dialog")
                  /\ (~ProjectFlag(old) /\ ProjectFlag(new)
                        /\ ProjectData(new) # EmptyDict) =>
                        ~SettingsFlag(old)]_vars

\* A run of a session with both flags set: the project panel is what it shows.
C13_Witness ==
    \E s \in Live :
        /\ pc[s] = "fetched"
        /\ ProjectFlag(session_state[s])
        /\ SettingsFlag(session_state[s])

====
